---- MODULE Spec2Model ----
(***************************************************************************)
(* Model of the any-to-poem backend: the POST /api/poetry/generate request *)
(* pipeline (multer upload filter, validation middleware, controller with  *)
(* its upload / inference / persistence calls), the text parser of the     *)
(* inference service, the upload methods of the object storage service     *)
(* with the routes that call them, and the requests on stored records      *)
(* (detail, feedback, share, delete) over the table of the Poetry model.   *)
(*                                                                         *)
(* Four specifications share the variables: Spec (one generate request),   *)
(* SpecParse (the parser on a string), SpecUpload (one upload) and         *)
(* SpecCrud (record requests handled concurrently).                        *)
(*                                                                         *)
(* JavaScript strings are sequences of one-character strings.  The module  *)
(* is ASCII only, so the CJK characters of the source are written with     *)
(* stand-ins; the table is                                                 *)
(*   styles   gufeng / xiandai / langman / zheli  = the four style names   *)
(*            of validation.js:30 in that order                            *)
(*   markers  t p m u :   = the five characters of the description marker  *)
(*            s g :       = the three characters of the poem marker        *)
(*            f x :       = the three characters of the analysis marker    *)
(***************************************************************************)
EXTENDS Integers, Sequences, FiniteSets, TLC

VARIABLES
  pc,             \* position of the generate request in the middleware chain
  req,            \* the request: file, body.imageUrl, body.imageBuffer, body.style, body.userId
  finalImageUrl,  \* poetryController.js:34
  result,         \* poetryController.js:80
  inferInput,     \* the argument of the last generatePoetryFromImage call
  uploadPath,     \* which ossService method the controller called
  inflight,       \* external calls awaited and not yet settled
  trace,          \* start/end events of the external calls, in order
  calls,          \* number of calls made to each collaborator
  db,             \* rows of table poetry
  dbReady,        \* database.js: supabase client was created by connectDB
  nodeEnv,        \* process.env.NODE_ENV
  response,       \* what res.status(..).json(..) sent
  sent,           \* number of responses sent
  input,          \* parser: the string handed to parsePoetryResult
  parts,          \* parser: the texts D, T, L1, L2, A the input was built from, if it was
  parsed,         \* parser: what parsePoetryResult returned
  upPc,           \* storage: position of the upload in the site and the ossService method
  upload,         \* storage: the payload, the site it arrived at, the method called for it
  ossCalls,       \* storage: number of calls of each ossService upload method
  ossClient,      \* storage: this.client of OSSService
  storage,        \* storage: the objects held by the object storage collaborator
  tempFiles,      \* storage: the files in os.tmpdir()
  upResult,       \* storage: what the ossService method returned or threw
  clients,        \* records: the requests on stored records and their handlers' locals
  started,        \* records: number of record requests sent
  inserted        \* records: number of rows the table was given, the last id

genVars == <<pc, req, finalImageUrl, result, inferInput, uploadPath, inflight,
             trace, calls, db, dbReady, nodeEnv, response, sent>>
parseVars == <<input, parts, parsed>>
upVars == <<upPc, upload, ossCalls, ossClient, storage, tempFiles, upResult>>
crudVars == <<clients, started, inserted>>
vars == <<genVars, parseVars, upVars, crudVars>>

----------------------------------------------------------------------------
(* JavaScript values *)

Undefined == "undefined"
JsNull == "null"
Truthy(s) == s \notin {"", JsNull, Undefined}

\* null as the value of a string-valued field (a sequence no string equals)
Null == <<"null">>

NL == "\n"
IsWs(c) == c \in {" ", NL}

----------------------------------------------------------------------------
(* Program constants *)

\* poetryController.js:48, 5 * 1024 * 1024
threshold == 5242880
\* routes/poetry.js:11, 10 * 1024 * 1024
MulterFileSize == 10485760

Styles == {"gufeng", "xiandai", "langman", "zheli"}

\* the URL ossService.uploadImage / multipartUploadImage return in data.url
OssUrl == "https://oss/poetry/1.jpg"

----------------------------------------------------------------------------
(* The requests the model sends *)

NoFile == [present |-> FALSE, size |-> 0, isImage |-> FALSE]
FileSizes == {threshold - 1, threshold, threshold + 1, MulterFileSize + 1}
Files == {NoFile} \cup
         {[present |-> TRUE, size |-> s, isImage |-> b] : s \in FileSizes, b \in BOOLEAN}
ValidUris == {"http://img/a.jpg"}
ImageUrls == {Undefined, "", "not a uri"} \cup ValidUris
ImageBuffers == {Undefined, "", "QUJD"}
StyleInputs == Styles \cup {Undefined, "other"}
UserIds == {Undefined, "u1"}

Requests == [file : Files, imageUrl : ImageUrls, imageBuffer : ImageBuffers,
             style : StyleInputs, userId : UserIds]

NoRequest == [file |-> NoFile, imageUrl |-> Undefined, imageBuffer |-> Undefined,
              style |-> Undefined, userId |-> Undefined]

\* the values Date.now() takes at poetryController.js:208
Timestamps == {1, 2}

----------------------------------------------------------------------------
(* Responses *)

NoId == [prefix |-> "none", n |-> 0]
NoPoem == [id |-> NoId, content |-> <<>>, style |-> Undefined, title |-> Null, length |-> 0]

\* the values of process.env.NODE_ENV the code tells apart: 'development' and
\* any other, app.js:97
Environments == {"development", "production"}

\* res.status(status).json({error, details})
ErrorResponse(status, error, details) ==
  [status |-> status, error |-> error, details |-> details, stack |-> Undefined,
   success |-> FALSE, poetry |-> NoPoem, description |-> Null, note |-> Undefined]

\* the error-handling middleware, app.js:93-99: err.status || 500, the error's
\* message in every environment, its stack in development
errorHandler(message) ==
  [ErrorResponse(500, message, Undefined)
     EXCEPT !.stack = IF nodeEnv = "development" THEN "err.stack" ELSE Undefined]

\* res.status(201).json({success: true, data: {poetry, imageRecognition, generation, note}})
PoemResponse(poem, description, note) ==
  [status |-> 201, error |-> Undefined, details |-> Undefined, stack |-> Undefined,
   success |-> TRUE, poetry |-> poem, description |-> description, note |-> note]

NoResponse == ErrorResponse(0, Undefined, Undefined)

----------------------------------------------------------------------------
(* String primitives of the JavaScript runtime, as the parser uses them *)

Min(S) == CHOOSE x \in S : \A y \in S : x <= y
Max(S) == CHOOSE x \in S : \A y \in S : x >= y

\* the literal m occurs in s at position i
StartsAt(s, i, m) ==
  /\ i >= 1
  /\ i + Len(m) - 1 <= Len(s)
  /\ \A k \in 1..Len(m) : s[i + k - 1] = m[k]

\* leftmost occurrence of the literal m in s, 0 when there is none
Find(s, m) ==
  LET hits == {i \in 1..Len(s) : StartsAt(s, i, m)}
  IN IF hits = {} THEN 0 ELSE Min(hits)

\* String.prototype.trim, left side only
TrimStart(s) ==
  LET keep == {i \in 1..Len(s) : ~IsWs(s[i])}
  IN IF keep = {} THEN <<>> ELSE SubSeq(s, Min(keep), Len(s))

\* String.prototype.trim
Trim(s) ==
  LET keep == {i \in 1..Len(s) : ~IsWs(s[i])}
  IN IF keep = {} THEN <<>> ELSE SubSeq(s, Min(keep), Max(keep))

\* String.prototype.split('\n')
RECURSIVE Split(_)
Split(s) ==
  LET nl == {i \in 1..Len(s) : s[i] = NL}
  IN IF nl = {} THEN <<s>>
     ELSE <<SubSeq(s, 1, Min(nl) - 1)>> \o Split(SubSeq(s, Min(nl) + 1, Len(s)))

\* .split('\n').filter(line => line.trim())
NonEmptyLines(s) == SelectSeq(Split(s), LAMBDA line : Trim(line) # <<>>)

----------------------------------------------------------------------------
(* DoubaoService.parsePoetryResult *)

MarkDescription == <<"*", "*", "t", "p", "m", "u", ":", "*", "*">>
MarkPoetry == <<"*", "*", "s", "g", ":", "*", "*">>
MarkAnalysis == <<"*", "*", "f", "x", ":", "*", "*">>
Markers == {MarkDescription, MarkPoetry, MarkAnalysis}

\* the canned texts of Poetry.js:557 and :594, each one symbol
DefaultDescription == <<"DEFAULT_DESCRIPTION">>
DefaultAnalysis == <<"DEFAULT_ANALYSIS">>

\* /mark\s*([\s\S]*?)(?=stop1|stop2|$)/ : match at the leftmost mark, skip the
\* white space after it, capture lazily up to the first stop literal or the end
Capture(s, mark, stops) ==
  LET i == Find(s, mark)
      afterMark == i + Len(mark)
      nonWs == {j \in afterMark..Len(s) : ~IsWs(s[j])}
      b == IF nonWs = {} THEN Len(s) + 1 ELSE Min(nonWs)
      ends == {j \in b..Len(s) : \E m \in stops : StartsAt(s, j, m)}
      e == IF ends = {} THEN Len(s) + 1 ELSE Min(ends)
  IN IF i = 0 THEN [found |-> FALSE, text |-> <<>>]
     ELSE [found |-> TRUE, text |-> SubSeq(s, b, e - 1)]

\* poetry.match(/^(.+?)\n/): a non-empty first line followed by a line break
TitleMatch(poetry) ==
  LET nl == {i \in 1..Len(poetry) : poetry[i] = NL}
  IN IF nl = {} \/ Min(nl) = 1
     THEN [found |-> FALSE, text |-> <<>>, rest |-> poetry]
     ELSE [found |-> TRUE, text |-> SubSeq(poetry, 1, Min(nl) - 1),
           rest |-> SubSeq(poetry, Min(nl) + 1, Len(poetry))]

ParseResult(poetry, imageDescription, analysis, title) ==
  [poetry |-> poetry, imageDescription |-> imageDescription,
   analysis |-> analysis, title |-> title]

\* the try block, Poetry.js:552-601; threw: an exception left the block
parseTry(raw) ==
  LET descriptionMatch == Capture(raw, MarkDescription, {MarkPoetry, MarkAnalysis})
      imageDescription == IF descriptionMatch.found THEN Trim(descriptionMatch.text)
                          ELSE DefaultDescription
      poetryMatch == Capture(raw, MarkPoetry, {MarkAnalysis})
      poetry0 == IF poetryMatch.found THEN Trim(poetryMatch.text) ELSE raw
      titleMatch == TitleMatch(poetry0)
      title == IF titleMatch.found THEN Trim(titleMatch.text) ELSE Null
      hasTitle == title # Null /\ title # <<>>
      poetry == IF hasTitle THEN Trim(titleMatch.rest) ELSE poetry0
      firstLine == Split(poetry)[1]
      analysisMatch == Capture(raw, MarkAnalysis, {})
      analysis == IF analysisMatch.found THEN Trim(analysisMatch.text)
                  ELSE DefaultAnalysis
  IN IF (~hasTitle \/ Len(title) < 2) /\ firstLine # <<>> /\ Len(firstLine) > 2
     THEN \* line 586 reads const analysis before line 594 declares it: ReferenceError
          [threw |-> TRUE, value |-> ParseResult(<<>>, Null, Null, Null)]
     ELSE [threw |-> FALSE,
           value |-> ParseResult(NonEmptyLines(poetry), imageDescription, analysis, title)]

\* a catch block that gives up the poem lines
parseCatchEmpty(raw) ==
  [threw |-> FALSE,
   value |-> ParseResult(<<>>, DefaultDescription, DefaultAnalysis, Null)]

\* the catch block, Poetry.js:602-610
parseCatch(raw) ==
  [threw |-> FALSE,
   value |-> ParseResult(NonEmptyLines(raw), DefaultDescription, DefaultAnalysis, Null)]

parsePoetryResultUncaught(raw) == parseTry(raw)

parsePoetryResult(raw) ==
  IF parseTry(raw).threw THEN parseCatch(raw) ELSE parseTry(raw)

----------------------------------------------------------------------------
(* The inference collaborator and DoubaoService.generatePoetryFromImage *)

\* raw texts the model lets the inference API return in choices[0].message.content
WellFormedText ==
  MarkDescription \o <<"a", "b", NL>> \o MarkPoetry \o <<"a", "b", NL>>
    \o <<"a", "b", "c", NL, "b", "a", NL>> \o MarkAnalysis \o <<"a">>
InferTexts == {WellFormedText, <<"a", "b", "c">>, <<" ">>}

InferOutcomes ==
  {[kind |-> "ok", text |-> t] : t \in InferTexts} \cup
  {[kind |-> k, text |-> <<>>] : k \in {"http_error", "timeout", "malformed"}}

\* Poetry.js:404-511: every failure is caught at :495 and rethrown as an Error;
\* a 200 answer is trimmed (:474) and parsed (:484)
generatePoetryFromImage(outcome) ==
  IF outcome.kind = "ok"
  THEN parsePoetryResult(Trim(outcome.text))
  ELSE [threw |-> TRUE, value |-> ParseResult(<<>>, Null, Null, Null)]

----------------------------------------------------------------------------
(* PoetryController.generatePoetry: the canned poems, poetryController.js:101-125 *)

MockTitle(k) == <<k, "title">>
MockContent(k) == << <<k, "line 1">>, <<k, "line 2">>, <<k, "line 3">>, <<k, "line 4">> >>
MockDescription == <<"MOCK_DESCRIPTION">>

\* mockPoetries[style] || mockPoetries[<second style>], line 119
MockKey(style) == IF style \in Styles THEN style ELSE "xiandai"

MockResult(style) ==
  ParseResult(MockContent(MockKey(style)), MockDescription, DefaultAnalysis,
              MockTitle(MockKey(style)))

NoResult == ParseResult(<<>>, Null, Null, Null)

\* const { style = <first style> } = req.body, line 26
StyleOf(r) == IF r.style = Undefined THEN "gufeng" ELSE r.style

----------------------------------------------------------------------------
(* Persistence: Poetry.create, Poetry.js:22-60 *)

\* the row the insert stores; id is assigned by the database
Row(id, poetryData) ==
  [id |-> id,
   user_id |-> IF Truthy(poetryData.userId) THEN poetryData.userId ELSE JsNull,
   image |-> poetryData.image,
   image_recognition |-> poetryData.imageRecognition,
   poetry |-> poetryData.poetry,
   feedback |-> [rating |-> Undefined, comment |-> Undefined, isLiked |-> Undefined],
   share |-> [is_public |-> FALSE, share_count |-> 0, isPublic |-> Undefined,
              shareUrl |-> Undefined]]

\* Buffer.from(imageBuffer, 'base64').length
DecodedLength(b) == IF b = "QUJD" THEN 3 ELSE 0

\* a poetryData whose length is that of the canned poems
PoetryDataFourLines(r, url, res) ==
  [userId |-> r.userId,
   image |-> [size |-> IF r.file.present THEN r.file.size
                       ELSE IF Truthy(r.imageBuffer) THEN DecodedLength(r.imageBuffer) ELSE 0,
              url |-> IF Truthy(url) THEN url ELSE r.imageUrl],
   imageRecognition |-> [description |-> res.imageDescription],
   poetry |-> [content |-> res.poetry, title |-> res.title, style |-> StyleOf(r),
               length |-> 4]]

\* poetryData, poetryController.js:132-164
PoetryData(r, url, res) ==
  [userId |-> r.userId,
   image |-> [size |-> IF r.file.present THEN r.file.size
                       ELSE IF Truthy(r.imageBuffer) THEN DecodedLength(r.imageBuffer) ELSE 0,
              url |-> IF Truthy(url) THEN url ELSE r.imageUrl],
   imageRecognition |-> [description |-> res.imageDescription],
   poetry |-> [content |-> res.poetry, title |-> res.title, style |-> StyleOf(r),
               length |-> Len(res.poetry)]]

----------------------------------------------------------------------------
(* The generate request: POST /api/poetry/generate, routes/poetry.js:24 *)

NotParsed == [applied |-> FALSE, threw |-> FALSE, value |-> NoResult]

NoUpload == [site |-> "none", size |-> 0, corrupt |-> FALSE, method |-> "none",
             buffer |-> "none"]
NoUploadResult == [settled |-> FALSE, success |-> FALSE, url |-> Undefined,
                   message |-> Undefined, status |-> 0, error |-> Undefined,
                   details |-> Undefined]

\* no upload was asked for; the storage client is the one the constructor made
\* (Poetry.js:795-827)
UploadIdle ==
  /\ upPc = "idle"
  /\ upload = NoUpload
  /\ ossCalls = [uploadImage |-> 0, multipartUploadImage |-> 0]
  /\ ossClient = "constructed"
  /\ storage = {}
  /\ tempFiles = {}
  /\ upResult = NoUploadResult

\* requests handled at the same time, requests sent in all, rows inserted in all
MaxClients == 2
MaxRequests == 3
MaxRecords == 1

Clients == 1..MaxClients
RecordId(n) == [prefix |-> "", n |-> n]
\* the ids requests ask for: those of the rows and one no row ever gets
RequestIds == {RecordId(n) : n \in 1..(MaxRecords + 1)}

\* req.body of the record requests; a key the body lacks is undefined
NoBody == [rating |-> Undefined, comment |-> Undefined, isLiked |-> Undefined,
           isPublic |-> Undefined, userId |-> Undefined]

\* res.status(status).json(...) of the record requests
Answer(status) ==
  [status |-> status, shareUrl |-> Undefined, shareCount |-> 0 - 1,
   isPublic |-> Undefined,
   feedback |-> [rating |-> Undefined, comment |-> Undefined, isLiked |-> Undefined]]

\* the Poetry object of a request that holds none
NoPoetry == Row(NoId, PoetryData(NoRequest, Undefined, NoResult))

\* a client that sends nothing.  poetry is the Poetry object the handler holds;
\* reads and writes count the statements sent to the database; seen is the stored
\* share_count when the request arrived, readCount the one findById read, stored
\* the one its own write left, and overlapped tells that another record request
\* was being handled meanwhile
IdleClient ==
  [op |-> "none", id |-> NoId, body |-> NoBody, pc |-> "idle", poetry |-> NoPoetry,
   answer |-> Answer(0), reads |-> 0, writes |-> 0, seen |-> 0 - 1,
   readCount |-> 0 - 1, stored |-> 0 - 1, overlapped |-> FALSE]

CrudIdle ==
  /\ clients = [c \in Clients |-> IdleClient]
  /\ started = 0
  /\ inserted = 0

Init ==
  /\ pc = "idle"
  /\ req = NoRequest
  /\ finalImageUrl = Undefined
  /\ result = NoResult
  /\ inferInput = [kind |-> "none", ref |-> Undefined]
  /\ uploadPath = "none"
  /\ inflight = {}
  /\ trace = <<>>
  /\ calls = [upload |-> 0, infer |-> 0, create |-> 0]
  /\ db = <<>>
  /\ dbReady \in BOOLEAN
  /\ nodeEnv \in Environments
  /\ response = NoResponse
  /\ sent = 0
  /\ input = <<>>
  /\ parts = <<>>
  /\ parsed = NotParsed
  /\ UploadIdle
  /\ CrudIdle

Respond(r) ==
  /\ response' = r
  /\ sent' = sent + 1
  /\ pc' = "done"

\* upload.single('image'), routes/poetry.js:8-21; an error goes to the
\* error-handling middleware of app.js:93-99, which answers err.status || 500
uploadSingle ==
  /\ pc = "idle"
  /\ \E r \in Requests :
       /\ req' = r
       /\ IF r.file.present /\ ~r.file.isImage
          THEN Respond(errorHandler("fileFilter"))
          ELSE IF r.file.present /\ r.file.size > MulterFileSize
          THEN Respond(errorHandler("LIMIT_FILE_SIZE"))
          ELSE pc' = "validate" /\ UNCHANGED <<response, sent>>
  /\ UNCHANGED <<finalImageUrl, result, inferInput, uploadPath, inflight,
                 trace, calls, db, dbReady, nodeEnv, parseVars, upVars, crudVars>>

\* schema.validate(req.body), validation.js:23-36: the first failing key's
\* message, "ok" when the body passes
\* a schema whose style key is a plain Joi.string()
styleAny(style) == TRUE

\* style: Joi.string().valid(<the four styles>), validation.js:30
styleValid(style) == style = Undefined \/ style \in Styles

schemaValidate(body) ==
  IF body.imageBuffer = "" THEN "string.empty"
  ELSE IF body.imageUrl = "" THEN "string.empty"
  ELSE IF body.imageUrl # Undefined /\ body.imageUrl \notin ValidUris THEN "string.uri"
  ELSE IF ~styleValid(body.style) THEN "any.only"
  ELSE "ok"

\* a middleware that answers 422 Unprocessable Entity
UnprocessableEntity == 400 + 22

\* res.status(400), validation.js:15 and :40
ValidationStatus == 400

\* validatePoetryGeneration, validation.js:7-47
validatePoetryGeneration ==
  /\ pc = "validate"
  /\ LET hasFile == req.file.present
         hasImageUrl == Truthy(req.imageUrl)
         hasImageBuffer == Truthy(req.imageBuffer)
     IN IF ~hasFile /\ ~hasImageUrl /\ ~hasImageBuffer
        THEN Respond(ErrorResponse(ValidationStatus, "bad request", "no image"))
        ELSE IF schemaValidate(req) # "ok"
        THEN Respond(ErrorResponse(ValidationStatus, "bad request", schemaValidate(req)))
        ELSE pc' = "controller" /\ UNCHANGED <<response, sent>>
  /\ UNCHANGED <<req, finalImageUrl, result, inferInput, uploadPath, inflight,
                 trace, calls, db, dbReady, nodeEnv, parseVars, upVars, crudVars>>

Log(e) == trace' = Append(trace, e)
Call(c) == calls' = [calls EXCEPT ![c] = @ + 1]

\* the degraded 201 of poetryController.js:204-225
DegradedResponse(res, style, t) ==
  PoemResponse([id |-> [prefix |-> "temp_", n |-> t], content |-> res.poetry,
                style |-> style, title |-> res.title, length |-> Len(res.poetry)],
               res.imageDescription, "not saved")

\* the 201 of poetryController.js:176-196, built from the row Poetry.create returned
CreatedResponse(row, res) ==
  PoemResponse([id |-> row.id, content |-> row.poetry.content, style |-> row.poetry.style,
                title |-> row.poetry.title, length |-> row.poetry.length],
               res.imageDescription, Undefined)

\* a controller that does not await ossService before it goes on
startUploadUnawaited == pc' = "preinfer"

\* await ossService.uploadImage / multipartUploadImage, poetryController.js:53-64
startUploadAwaited == pc' = "uploading"

\* the branch of poetryController.js:50-64
routeGenerate(size) == IF size > threshold THEN "multipartUploadImage" ELSE "uploadImage"

\* generatePoetry up to its first await, poetryController.js:24-65
generatePoetry ==
  /\ pc = "controller"
  /\ IF ~req.file.present /\ ~Truthy(req.imageUrl) /\ ~Truthy(req.imageBuffer)
     THEN /\ Respond(ErrorResponse(400, "no image", Undefined))
          /\ UNCHANGED <<finalImageUrl, uploadPath, inflight, trace, calls>>
     ELSE /\ finalImageUrl' = req.imageUrl
          /\ UNCHANGED <<response, sent>>
          /\ IF req.file.present
             THEN /\ uploadPath' = routeGenerate(req.file.size)
                  /\ inflight' = inflight \cup {"upload"}
                  /\ Log("upload:start")
                  /\ Call("upload")
                  /\ startUploadAwaited
             ELSE /\ pc' = "preinfer"
                  /\ UNCHANGED <<uploadPath, inflight, trace, calls>>
  /\ UNCHANGED <<req, result, inferInput, db, dbReady, nodeEnv, parseVars, upVars, crudVars>>

\* the upload settles: finalImageUrl = ossResult.data.url (line 67), or the
\* catch of lines 70-75 sets it to null
uploadSettled ==
  /\ "upload" \in inflight
  /\ \E ok \in BOOLEAN :
       /\ finalImageUrl' = IF ok THEN OssUrl ELSE JsNull
       /\ Log(IF ok THEN "upload:ok" ELSE "upload:fail")
  /\ inflight' = inflight \ {"upload"}
  /\ pc' = IF pc = "uploading" THEN "preinfer" ELSE pc
  /\ UNCHANGED <<req, result, inferInput, uploadPath, calls, db, dbReady, nodeEnv,
                 response, sent, parseVars, upVars, crudVars>>

\* a selection that goes back to the request's imageUrl after a failed upload
InferenceInputRequestUrl(r, url) ==
  IF Truthy(url) THEN [kind |-> "url", ref |-> url]
  ELSE IF Truthy(r.imageUrl) THEN [kind |-> "url", ref |-> r.imageUrl]
  ELSE IF r.file.present THEN [kind |-> "file.buffer", ref |-> Undefined]
  ELSE IF Truthy(r.imageBuffer) THEN [kind |-> "imageBuffer", ref |-> r.imageBuffer]
  ELSE [kind |-> "none", ref |-> Undefined]

\* the same without the branch of lines 86-88
InferenceInputNoRawBytes(r, url) ==
  IF Truthy(url) THEN [kind |-> "url", ref |-> url]
  ELSE IF Truthy(r.imageBuffer) THEN [kind |-> "imageBuffer", ref |-> r.imageBuffer]
  ELSE [kind |-> "none", ref |-> Undefined]

\* the argument of generatePoetryFromImage, poetryController.js:83-97
InferenceInput(r, url) ==
  IF Truthy(url) THEN [kind |-> "url", ref |-> url]
  ELSE IF r.file.present THEN [kind |-> "file.buffer", ref |-> Undefined]
  ELSE IF Truthy(r.imageBuffer) THEN [kind |-> "imageBuffer", ref |-> r.imageBuffer]
  ELSE [kind |-> "none", ref |-> Undefined]

\* poetryController.js:82-97: the call is made, or line 96 throws into the
\* catch of line 98
callInference ==
  /\ pc = "preinfer"
  /\ LET arg == InferenceInput(req, finalImageUrl)
     IN IF arg.kind = "none"
        THEN /\ result' = MockResult(StyleOf(req))
             /\ pc' = "prepersist"
             /\ UNCHANGED <<inferInput, inflight, trace, calls>>
        ELSE /\ inferInput' = arg
             /\ inflight' = inflight \cup {"infer"}
             /\ Log("infer:start")
             /\ Call("infer")
             /\ pc' = "inferring"
             /\ UNCHANGED result
  /\ UNCHANGED <<req, finalImageUrl, uploadPath, db, dbReady, nodeEnv, response, sent, parseVars, upVars, crudVars>>

\* a catch block that always substitutes the poem of the default key
FallbackResultDefaultOnly(style) == MockResult("other")

\* the catch of poetryController.js:98-126
FallbackResult(style) == MockResult(style)

\* the inference call settles, poetryController.js:85-126
inferenceSettled ==
  /\ "infer" \in inflight
  /\ \E outcome \in InferOutcomes :
       LET r == generatePoetryFromImage(outcome)
       IN /\ result' = IF r.threw THEN FallbackResult(StyleOf(req)) ELSE r.value
          /\ Log(IF r.threw THEN "infer:fail" ELSE "infer:ok")
  /\ inflight' = inflight \ {"infer"}
  /\ pc' = IF pc = "inferring" THEN "prepersist" ELSE pc
  /\ UNCHANGED <<req, finalImageUrl, inferInput, uploadPath, calls, db, dbReady, nodeEnv,
                 response, sent, parseVars, upVars, crudVars>>

\* a controller that answers the degraded 201 without the note field
DegradedNoNote(res, style, t) ==
  [DegradedResponse(res, style, t) EXCEPT !.note = Undefined]

\* a controller whose catch of the database error answers 500
DegradedAsError(res, style, t) == ErrorResponse(500, "create failed", Undefined)

\* res.status(201).json of poetryController.js:204-225
DegradedAnswer(res, style, t) == DegradedResponse(res, style, t)

\* Poetry.create up to its await, Poetry.js:22-42; getSupabase (Poetry.js:1417-1422)
\* throws when connectDB never created the client, and the controller's catch
\* (poetryController.js:198-225) answers
createRecord ==
  /\ pc = "prepersist"
  /\ IF ~dbReady
     THEN /\ \E t \in Timestamps : Respond(DegradedAnswer(result, StyleOf(req), t))
          /\ UNCHANGED <<inflight, trace>>
     ELSE /\ inflight' = inflight \cup {"create"}
          /\ Log("create:start")
          /\ pc' = "persisting"
          /\ UNCHANGED <<response, sent>>
  /\ Call("create")
  /\ UNCHANGED <<req, finalImageUrl, result, inferInput, uploadPath, db, dbReady, nodeEnv, parseVars, upVars, crudVars>>

\* a handler whose catch answers again after the 201 of the stored row was sent
createSettledAnsweringTwice ==
  /\ "create" \in inflight
  /\ pc = "persisting"
  /\ \E ok \in BOOLEAN, t \in Timestamps :
       /\ response' = DegradedAnswer(result, StyleOf(req), t)
       /\ sent' = IF ok THEN sent + 2 ELSE sent + 1
       /\ pc' = "done"
       /\ Log(IF ok THEN "create:ok" ELSE "create:fail")
       /\ IF ok
          THEN /\ db' = Append(db, Row(RecordId(inserted + 1),
                                       PoetryData(req, finalImageUrl, result)))
               /\ inserted' = inserted + 1
          ELSE UNCHANGED <<db, inserted>>
  /\ inflight' = inflight \ {"create"}
  /\ UNCHANGED <<req, finalImageUrl, result, inferInput, uploadPath, calls, dbReady, nodeEnv,
                 parseVars, upVars, clients, started>>

\* the insert settles: the row is stored and answered (lines 166-196), or the
\* error is thrown into the catch of lines 198-225
createSettled ==
  /\ "create" \in inflight
  /\ pc = "persisting"
  /\ \E ok \in BOOLEAN :
       IF ok
       THEN LET row == Row(RecordId(inserted + 1), PoetryData(req, finalImageUrl, result))
            IN /\ db' = Append(db, row)
               /\ inserted' = inserted + 1
               /\ Respond(CreatedResponse(row, result))
               /\ Log("create:ok")
       ELSE /\ \E t \in Timestamps : Respond(DegradedAnswer(result, StyleOf(req), t))
            /\ Log("create:fail")
            /\ UNCHANGED <<db, inserted>>
  /\ inflight' = inflight \ {"create"}
  /\ UNCHANGED <<req, finalImageUrl, result, inferInput, uploadPath, calls, dbReady, nodeEnv,
                 parseVars, upVars, clients, started>>

Next ==
  \/ uploadSingle
  \/ validatePoetryGeneration
  \/ generatePoetry
  \/ uploadSettled
  \/ callInference
  \/ inferenceSettled
  \/ createRecord
  \/ createSettled

Spec == Init /\ [][Next]_vars

\* every await of the handler settles: the upload, the inference call and the
\* insert return or fail in the end (their timeouts, Poetry.js:404-511, :1054-1155)
SpecLive == Spec /\ WF_vars(Next)

----------------------------------------------------------------------------
(* Object storage: OSSService and the sites that call its upload methods *)

\* routes/images, part_000:46, 5 * 1024 * 1024
thresholdUpload == 5242880
\* OSSService.uploadImageFromUrl, Poetry.js:1245, 5 * 1024 * 1024
thresholdFromUrl == 5242880
\* routes/images, part_000:20, 50 * 1024 * 1024
ImagesFileSize == 52428800

UploadSizes == {threshold - 1, threshold, threshold + 1, ImagesFileSize + 1}

\* `${folder}/${Date.now()}_${uuidv4()}.jpg` and the temporary file of the
\* chunked upload
OssKey == "poetry/1.jpg"
TempPath == "tmp/temp_1.jpg"

GenericMessage == "upload failed, retry later"

\* the events of the storage collaborator and of sharp
PutOutcomes == {"put:ok", "put:SignatureDoesNotMatch", "put:NoSuchBucket",
                "put:AccessDenied", "put:InvalidAccessKeyId", "put:RequestError"}
MultipartOutcomes == {"multipart:ok", "multipart:ConnectionTimeoutError",
                      "multipart:RequestTimeoutError", "multipart:NoSuchBucket",
                      "multipart:RequestError"}
DownloadOutcomes == {"download:ok", "download:ECONNABORTED", "download:404",
                     "download:500", "download:error"}

\* the messages of Poetry.js:1034-1042, :1145-1153 and :1260-1268
ErrorMessage(outcome) ==
  CASE outcome \in {"put:NoSuchBucket", "multipart:NoSuchBucket"} -> "bucket missing"
    [] outcome = "put:AccessDenied" -> "access denied"
    [] outcome = "put:InvalidAccessKeyId" -> "access key invalid"
    [] outcome = "multipart:ConnectionTimeoutError" -> "upload timed out"
    [] outcome = "multipart:RequestTimeoutError" -> "request timed out"
    [] outcome = "download:ECONNABORTED" -> "download timed out"
    [] outcome = "download:404" -> "no such image url"
    [] outcome = "download:500" -> "download failed: HTTP 500"
    [] OTHER -> GenericMessage

\* a branch that sends a payload of exactly the threshold to the chunked path
routeFromUrlAtLeast(size) ==
  IF size >= thresholdFromUrl THEN "multipartUploadImage" ELSE "uploadImage"

\* the branch of part_000:49-68
routeUpload(size) == IF size > thresholdUpload THEN "multipartUploadImage" ELSE "uploadImage"
\* the branch of Poetry.js:1247-1254
routeFromUrl(size) == IF size > thresholdFromUrl THEN "multipartUploadImage" ELSE "uploadImage"

\* the variables of the generate request but trace
reqVars == <<pc, req, finalImageUrl, result, inferInput, uploadPath, inflight,
             calls, db, dbReady, nodeEnv, response, sent>>

\* what the site does with the method's result: the image routes answer
\* res.json(result) or 500 (part_000:70-78, :104-112, :126-134); the controller
\* keeps the url or null (poetryController.js:67-75); uploadImageFromUrl's own
\* catch rethrows a method's error under the generic message (Poetry.js:1256-1268)
Returned(site, url) ==
  [settled |-> TRUE, success |-> TRUE, url |-> url, message |-> Undefined,
   status |-> IF site = "generate" THEN 0 ELSE 200, error |-> Undefined,
   details |-> Undefined]
\* the catch of the site, given the message of the error it caught; the routes
\* answer their own text and, in development, the message as details
Caught(site, message) ==
  [settled |-> TRUE, success |-> FALSE, url |-> Undefined, message |-> message,
   status |-> IF site = "generate" THEN 0 ELSE 500,
   error |-> IF site = "generate" THEN Undefined ELSE GenericMessage,
   details |-> IF site # "generate" /\ nodeEnv = "development" THEN message
               ELSE Undefined]
Thrown(site, message) ==
  Caught(site, IF site = "upload-url" THEN GenericMessage ELSE message)
Refused(message) ==
  [settled |-> TRUE, success |-> FALSE, url |-> Undefined, message |-> message,
   status |-> 400, error |-> message, details |-> Undefined]
\* the error-handling middleware of app.js:93-99 answers an error of multer
Handled(message) ==
  [settled |-> TRUE, success |-> FALSE, url |-> Undefined, message |-> message,
   status |-> 500, error |-> message, details |-> Undefined]

\* await ossService.<method>(buffer, ...)
CallMethod(site, size, corrupt, method) ==
  /\ upload' = [site |-> site, size |-> size, corrupt |-> corrupt, method |-> method,
                buffer |-> "none"]
  /\ ossCalls' = [ossCalls EXCEPT ![method] = @ + 1]
  /\ upPc' = "sharp"

\* the upload of the generate request, poetryController.js:45-65; the file passed
\* the upload filter of routes/poetry.js
generateUpload ==
  /\ upPc = "idle"
  /\ \E size \in UploadSizes, corrupt \in BOOLEAN :
       /\ size <= MulterFileSize
       /\ CallMethod("generate", size, corrupt, routeGenerate(size))
  /\ UNCHANGED <<crudVars, genVars, parseVars, ossClient, storage, tempFiles, upResult>>

\* POST /api/images/upload, part_000:37-68; a file over the route's size limit
\* is refused by multer and answered by the error handler of app.js:93-99
postUpload ==
  /\ upPc = "idle"
  /\ \/ /\ upload' = [NoUpload EXCEPT !.site = "upload"]
        /\ upResult' = Refused("no file")
        /\ upPc' = "done"
        /\ UNCHANGED ossCalls
     \/ \E size \in UploadSizes, corrupt \in BOOLEAN :
          IF size > ImagesFileSize
          THEN /\ upload' = [NoUpload EXCEPT !.site = "upload", !.size = size]
               /\ upResult' = Handled("LIMIT_FILE_SIZE")
               /\ upPc' = "done"
               /\ UNCHANGED ossCalls
          ELSE /\ CallMethod("upload", size, corrupt, routeUpload(size))
               /\ UNCHANGED upResult
  /\ UNCHANGED <<crudVars, genVars, parseVars, ossClient, storage, tempFiles>>

\* POST /api/images/upload-multipart, part_000:85-102
postUploadMultipart ==
  /\ upPc = "idle"
  /\ \E size \in UploadSizes, corrupt \in BOOLEAN :
       /\ size <= ImagesFileSize
       /\ CallMethod("upload-multipart", size, corrupt, "multipartUploadImage")
  /\ UNCHANGED <<crudVars, genVars, parseVars, ossClient, storage, tempFiles, upResult>>

\* POST /api/images/upload-url, validation.js:80-102 and part_000:119-124, up to
\* the axios.get of Poetry.js:1232
postUploadUrl ==
  /\ upPc = "idle"
  /\ \E imageUrl \in ImageUrls :
       /\ upload' = [NoUpload EXCEPT !.site = "upload-url"]
       /\ IF imageUrl \in ValidUris
          THEN upPc' = "download" /\ UNCHANGED upResult
          ELSE upPc' = "done" /\ upResult' = Refused("bad request")
  /\ UNCHANGED <<crudVars, genVars, parseVars, ossCalls, ossClient, storage, tempFiles>>

\* the download settles, Poetry.js:1232-1254 and the catch of :1256-1269
downloadSettled ==
  /\ upPc = "download"
  /\ \E outcome \in DownloadOutcomes :
       /\ Log(outcome)
       /\ IF outcome = "download:ok"
          THEN /\ \E size \in UploadSizes, corrupt \in BOOLEAN :
                    CallMethod("upload-url", size, corrupt, routeFromUrl(size))
               /\ UNCHANGED upResult
          ELSE /\ upResult' = Caught("upload-url", ErrorMessage(outcome))
               /\ upPc' = "done"
               /\ UNCHANGED <<upload, ossCalls>>
  /\ UNCHANGED <<crudVars, reqVars, parseVars, ossClient, storage, tempFiles>>

\* sharp(imageBuffer)...toBuffer() settles.  uploadImage catches its failure and
\* goes on with the bytes it was given (Poetry.js:904-915); in
\* multipartUploadImage the failure leaves the try block (:1057-1063, :1141-1153),
\* otherwise the re-encoded bytes are written to the temporary file (:1074)
sharpSettled ==
  /\ upPc = "sharp"
  /\ IF upload.method = "uploadImage"
     THEN /\ upload' = [upload EXCEPT !.buffer = IF upload.corrupt THEN "original"
                                                  ELSE "processed"]
          /\ upPc' = "put"
          /\ UNCHANGED <<tempFiles, upResult>>
     ELSE IF upload.corrupt
     THEN /\ upResult' = Thrown(upload.site, GenericMessage)
          /\ upPc' = "done"
          /\ UNCHANGED <<upload, tempFiles>>
     ELSE /\ upload' = [upload EXCEPT !.buffer = "processed"]
          /\ tempFiles' = tempFiles \cup {TempPath}
          /\ upPc' = "multipartUpload"
          /\ UNCHANGED upResult
  /\ Log(IF upload.corrupt THEN "sharp:fail" ELSE "sharp:ok")
  /\ UNCHANGED <<crudVars, reqVars, parseVars, ossCalls, ossClient, storage>>

\* this.client.put settles, Poetry.js:937-962, and the catch of :964-1043.  On
\* SignatureDoesNotMatch both retries name filename and processedBuffer, which
\* are declared inside the try block (:901, :919): evaluating the arguments of
\* put at :980 and at :1012 throws ReferenceError, the inner catches (:996,
\* :1028) swallow it, and between the two the client is constructed anew (:1003)
putSettled ==
  /\ upPc = "put"
  /\ \E outcome \in PutOutcomes :
       /\ Log(outcome)
       /\ IF outcome = "put:ok"
          THEN /\ storage' = storage \cup {[key |-> OssKey, bytes |-> upload.buffer,
                                            via |-> "put"]}
               /\ upResult' = Returned(upload.site, OssUrl)
               /\ UNCHANGED ossClient
          ELSE /\ upResult' = Thrown(upload.site, ErrorMessage(outcome))
               /\ ossClient' = IF outcome = "put:SignatureDoesNotMatch"
                               THEN "constructed anew" ELSE ossClient
               /\ UNCHANGED storage
  /\ upPc' = "done"
  /\ UNCHANGED <<crudVars, reqVars, parseVars, upload, ossCalls, tempFiles>>

\* this.client.multipartUpload settles, Poetry.js:1102-1139 and the catch of
\* :1141-1154; fs.unlink may fail, which is logged only (:1111-1115)
multipartUploadSettled ==
  /\ upPc = "multipartUpload"
  /\ \E outcome \in MultipartOutcomes :
       /\ Log(outcome)
       /\ IF outcome = "multipart:ok"
          THEN /\ storage' = storage \cup {[key |-> OssKey, bytes |-> upload.buffer,
                                            via |-> "multipartUpload"]}
               /\ \E unlinked \in BOOLEAN :
                    tempFiles' = IF unlinked THEN tempFiles \ {TempPath} ELSE tempFiles
               /\ upResult' = Returned(upload.site, OssUrl)
          ELSE /\ upResult' = Thrown(upload.site, ErrorMessage(outcome))
               /\ UNCHANGED <<storage, tempFiles>>
  /\ upPc' = "done"
  /\ UNCHANGED <<crudVars, reqVars, parseVars, upload, ossCalls, ossClient>>

InitUpload ==
  /\ pc = "idle"
  /\ req = NoRequest
  /\ finalImageUrl = Undefined
  /\ result = NoResult
  /\ inferInput = [kind |-> "none", ref |-> Undefined]
  /\ uploadPath = "none"
  /\ inflight = {}
  /\ trace = <<>>
  /\ calls = [upload |-> 0, infer |-> 0, create |-> 0]
  /\ db = <<>>
  /\ dbReady = TRUE
  /\ nodeEnv \in Environments
  /\ response = NoResponse
  /\ sent = 0
  /\ input = <<>>
  /\ parts = <<>>
  /\ parsed = NotParsed
  /\ UploadIdle
  /\ CrudIdle

NextUpload ==
  \/ generateUpload
  \/ postUpload
  \/ postUploadMultipart
  \/ postUploadUrl
  \/ downloadSettled
  \/ sharpSettled
  \/ putSettled
  \/ multipartUploadSettled

SpecUpload == InitUpload /\ [][NextUpload]_vars

----------------------------------------------------------------------------
(* The record requests: GET /:id, PUT /:id/feedback, POST /:id/share and      *)
(* DELETE /:id of routes/poetry.js:36-45, with the Poetry model               *)

\* the table poetry
HasRow(d, id) == \E i \in 1..Len(d) : d[i].id = id
RowOf(d, id) == d[CHOOSE i \in 1..Len(d) : d[i].id = id]
UpdateRow(d, id, row) == [i \in 1..Len(d) |-> IF d[i].id = id THEN row ELSE d[i]]
DeleteRow(d, id) == SelectSeq(d, LAMBDA r : r.id # id)

\* ratings are known by their JSON text, comments by their length
Number(rating) == CASE rating = "0" -> 0 [] rating = "5" -> 5 [] rating = "6" -> 6
Comments == {"c500", "c501"}
CommentLength(c) == IF c = "c500" THEN 500 ELSE 500 + 1
FeedbackBodies ==
  {NoBody,
   [NoBody EXCEPT !.isLiked = "true"],
   [NoBody EXCEPT !.comment = "c500"],
   [NoBody EXCEPT !.comment = "c501"],
   [NoBody EXCEPT !.rating = "5"],
   [NoBody EXCEPT !.rating = "0"],
   [NoBody EXCEPT !.rating = "6", !.isLiked = "true"]}
ShareBodies == {NoBody, [NoBody EXCEPT !.isPublic = "false"]}
DeleteBodies == {[NoBody EXCEPT !.userId = u] : u \in {Undefined, "u1", "u2"}}

Busy(c) == clients[c].pc \notin {"idle", "done"}

\* a feedback schema whose rating key is a plain Joi.number()
ratingAny(rating) == TRUE

\* rating: Joi.number().min(1).max(5).optional(), validation.js:54
ratingValid(rating) ==
  rating = Undefined \/ (Number(rating) >= 1 /\ Number(rating) <= 5)
\* comment: Joi.string().max(500).optional(), validation.js:58
commentValid(comment) == comment = Undefined \/ CommentLength(comment) <= 500

\* a handler that lets everybody delete
deleteAllowedAlways(poetry, userId) == TRUE

\* the negation of the test of poetryController.js:452
deleteAllowed(poetry, userId) == ~(Truthy(poetry.user_id) /\ poetry.user_id # userId)

\* an increment that writes the count it read
sameShareCount(poetry) == poetry.share.share_count

\* (this.share?.share_count || 0) + 1, Poetry.js:281
incrementedShareCount(poetry) == poetry.share.share_count + 1

\* the request arrives and the handler runs up to await Poetry.findById(id)
\* (poetryController.js:300, :326, :367, :445); getSupabase throws when the client
\* was never created and the handler's catch answers 500
Arrive(c, op, id, body) ==
  /\ started < MaxRequests
  /\ ~Busy(c)
  /\ \A d \in Clients : d < c => Busy(d)
  /\ started' = started + 1
  /\ clients' =
       [d \in Clients |->
          IF d = c
          THEN [IdleClient EXCEPT
                  !.op = op, !.id = id, !.body = body,
                  !.pc = IF dbReady THEN "findById" ELSE "done",
                  !.answer = IF dbReady THEN Answer(0) ELSE Answer(500),
                  !.reads = IF dbReady THEN 1 ELSE 0,
                  !.seen = IF HasRow(db, id) THEN RowOf(db, id).share.share_count ELSE 0 - 1,
                  !.overlapped = \E e \in Clients : e # c /\ Busy(e)]
          ELSE IF Busy(d) THEN [clients[d] EXCEPT !.overlapped = TRUE]
          ELSE clients[d]]

\* one client's record, changed
Client(c, new) == clients' = [clients EXCEPT ![c] = new]

\* a generate request stores its row: Poetry.create, Poetry.js:22-60, called at
\* poetryController.js:166
poetryCreate ==
  /\ dbReady
  /\ inserted < MaxRecords
  /\ \E userId \in UserIds, res \in {MockResult("gufeng")} :
       db' = Append(db, Row(RecordId(inserted + 1),
                            PoetryData([NoRequest EXCEPT !.userId = userId,
                                                         !.imageBuffer = "QUJD"],
                                       Undefined, res)))
  /\ inserted' = inserted + 1
  /\ UNCHANGED <<pc, req, finalImageUrl, result, inferInput, uploadPath, inflight,
                 trace, calls, dbReady, nodeEnv, response, sent, parseVars, upVars,
                 clients, started>>

\* GET /api/poetry/:id, poetryController.js:296-300
getPoetryById(c) ==
  /\ \E id \in RequestIds : Arrive(c, "detail", id, NoBody)
  /\ UNCHANGED <<genVars, parseVars, upVars, inserted>>

\* PUT /api/poetry/:id/feedback: validateFeedback, validation.js:52-75, then
\* poetryController.js:321-326
updateFeedback(c) ==
  /\ \E id \in RequestIds, body \in FeedbackBodies :
       IF ratingValid(body.rating) /\ commentValid(body.comment)
       THEN Arrive(c, "feedback", id, body)
       ELSE /\ started < MaxRequests
            /\ ~Busy(c)
            /\ \A d \in Clients : d < c => Busy(d)
            /\ started' = started + 1
            /\ Client(c, [IdleClient EXCEPT !.op = "feedback", !.id = id, !.body = body,
                                            !.pc = "done", !.answer = Answer(400)])
  /\ UNCHANGED <<genVars, parseVars, upVars, inserted>>

\* POST /api/poetry/:id/share, poetryController.js:362-367
sharePoetry(c) ==
  /\ \E id \in RequestIds, body \in ShareBodies : Arrive(c, "share", id, body)
  /\ UNCHANGED <<genVars, parseVars, upVars, inserted>>

\* DELETE /api/poetry/:id, poetryController.js:440-445
deletePoetry(c) ==
  /\ \E id \in RequestIds, body \in DeleteBodies : Arrive(c, "delete", id, body)
  /\ UNCHANGED <<genVars, parseVars, upVars, inserted>>

\* a feedback handler that puts the request body in place of the stored feedback
FoundOverwriting(c, row) ==
  LET me == clients[c]
      body == me.body
      merged == [rating |-> body.rating, comment |-> body.comment,
                 isLiked |-> body.isLiked]
      shared == [row.share EXCEPT
                   !.isPublic = IF body.isPublic = Undefined THEN "true" ELSE body.isPublic,
                   !.shareUrl = "/poetry/" \o ToString(row.id.n)]
  IN CASE me.op = "detail" ->
            [me EXCEPT !.poetry = row, !.pc = "done", !.answer = Answer(200)]
       [] me.op = "feedback" ->
            [me EXCEPT !.poetry = [row EXCEPT !.feedback = merged], !.pc = "save",
                       !.writes = 1]
       [] me.op = "share" ->
            [me EXCEPT !.poetry = [row EXCEPT !.share = shared],
                       !.pc = "incrementShareCount", !.writes = 1]
       [] me.op = "delete" ->
            IF deleteAllowed(row, body.userId)
            THEN [me EXCEPT !.poetry = row, !.pc = "deleteById", !.writes = 1]
            ELSE [me EXCEPT !.poetry = row, !.pc = "done", !.answer = Answer(403)]

\* the handler from the row findById returned to its next await or its answer:
\* poetryController.js:302-309, :328-345, :369-379, :447-456
Found(c, row) ==
  LET me == clients[c]
      body == me.body
      merged == [rating |-> IF body.rating # Undefined THEN body.rating
                            ELSE row.feedback.rating,
                 comment |-> IF body.comment # Undefined THEN body.comment
                             ELSE row.feedback.comment,
                 isLiked |-> IF body.isLiked # Undefined THEN body.isLiked
                             ELSE row.feedback.isLiked]
      shared == [row.share EXCEPT
                   !.isPublic = IF body.isPublic = Undefined THEN "true" ELSE body.isPublic,
                   !.shareUrl = "/poetry/" \o ToString(row.id.n)]
  IN CASE me.op = "detail" ->
            [me EXCEPT !.poetry = row, !.pc = "done", !.answer = Answer(200)]
       [] me.op = "feedback" ->
            [me EXCEPT !.poetry = [row EXCEPT !.feedback = merged], !.pc = "save",
                       !.writes = 1]
       [] me.op = "share" ->
            [me EXCEPT !.poetry = [row EXCEPT !.share = shared],
                       !.pc = "incrementShareCount", !.writes = 1]
       [] me.op = "delete" ->
            IF deleteAllowed(row, body.userId)
            THEN [me EXCEPT !.poetry = row, !.pc = "deleteById", !.writes = 1]
            ELSE [me EXCEPT !.poetry = row, !.pc = "done", !.answer = Answer(403)]

\* the handler's catch block: 500, poetryController.js:311-314, :352-355,
\* :390-393, :463-466
Failed(c) == [clients[c] EXCEPT !.pc = "done", !.answer = Answer(500)]

\* the select of Poetry.findById settles, Poetry.js:69-77: .single() gives an
\* error when no row has the id, which line 75 throws
findByIdSettled(c) ==
  /\ clients[c].pc = "findById"
  /\ IF HasRow(db, clients[c].id)
     THEN Client(c, [Found(c, RowOf(db, clients[c].id)) EXCEPT
                       !.readCount = RowOf(db, clients[c].id).share.share_count])
     ELSE Client(c, Failed(c))
  /\ UNCHANGED <<genVars, parseVars, upVars, started, inserted>>

\* a save that inserts the row when no row has the id (an upsert)
saveUpsertSettled(c) ==
  /\ clients[c].pc = "save"
  /\ LET me == clients[c]
     IN /\ db' = IF HasRow(db, me.id) THEN UpdateRow(db, me.id, me.poetry)
                 ELSE Append(db, me.poetry)
        /\ Client(c, [me EXCEPT !.pc = "done",
                                !.answer = [Answer(200) EXCEPT
                                              !.feedback = me.poetry.feedback],
                                !.stored = me.poetry.share.share_count])
  /\ UNCHANGED <<pc, req, finalImageUrl, result, inferInput, uploadPath, inflight,
                 trace, calls, dbReady, nodeEnv, response, sent, parseVars, upVars,
                 started, inserted>>

\* the update of poetry.save() settles, Poetry.js:242-263, and the handler
\* answers, poetryController.js:347-350: every column is written from the object
\* in memory; .single() gives an error when the update matched no row
saveSettled(c) ==
  /\ clients[c].pc = "save"
  /\ LET me == clients[c]
     IN IF HasRow(db, me.id)
        THEN /\ db' = UpdateRow(db, me.id, me.poetry)
             /\ Client(c, [me EXCEPT !.pc = "done",
                                     !.answer = [Answer(200) EXCEPT
                                                   !.feedback = me.poetry.feedback],
                                     !.stored = me.poetry.share.share_count])
        ELSE /\ Client(c, Failed(c))
             /\ UNCHANGED db
  /\ UNCHANGED <<pc, req, finalImageUrl, result, inferInput, uploadPath, inflight,
                 trace, calls, dbReady, nodeEnv, response, sent, parseVars, upVars,
                 started, inserted>>

\* rows in descending order of share->share_count (Poetry.js:174); the second
\* key, feedback->rating, orders rows of equal count and is left to the database
RECURSIVE orderByShareCount(_)
orderByShareCount(rows) ==
  IF rows = <<>> THEN <<>>
  ELSE LET i == CHOOSE i \in 1..Len(rows) :
                  \A j \in 1..Len(rows) :
                    /\ rows[i].share.share_count >= rows[j].share.share_count
                    /\ rows[i].share.share_count = rows[j].share.share_count => i <= j
           rest == [k \in 1..(Len(rows) - 1) |-> IF k < i THEN rows[k] ELSE rows[k + 1]]
       IN <<rows[i]>> \o orderByShareCount(rest)

\* Poetry.findPopular, Poetry.js:166-185: the rows whose share->is_public is
\* true, most shared first, limit of them at most
findPopular(d, limit) ==
  LET public == SelectSeq(d, LAMBDA r : r.share.is_public = TRUE)
      ordered == orderByShareCount(public)
  IN SubSeq(ordered, 1, IF Len(ordered) < limit THEN Len(ordered) ELSE limit)

\* an increment that saves the share object the handler holds in memory
incrementShareCountBySave(c) ==
  /\ clients[c].pc = "incrementShareCount"
  /\ LET me == clients[c]
         old == RowOf(db, me.id)
         new == [old EXCEPT !.share = [me.poetry.share EXCEPT
                                         !.share_count = incrementedShareCount(me.poetry)]]
     IN IF HasRow(db, me.id)
        THEN /\ db' = UpdateRow(db, me.id, new)
             /\ Client(c, [me EXCEPT !.pc = "done", !.poetry = new,
                                     !.answer = [Answer(200) EXCEPT
                                                   !.shareUrl = new.share.shareUrl,
                                                   !.shareCount = new.share.share_count,
                                                   !.isPublic = new.share.isPublic],
                                     !.stored = new.share.share_count])
        ELSE /\ Client(c, Failed(c))
             /\ UNCHANGED db
  /\ UNCHANGED <<pc, req, finalImageUrl, result, inferInput, uploadPath, inflight,
                 trace, calls, dbReady, nodeEnv, response, sent, parseVars, upVars,
                 started, inserted>>

\* an increment done by the database on the stored count, which the code does not do
incrementShareCountAtomic(c) ==
  /\ clients[c].pc = "incrementShareCount"
  /\ LET me == clients[c]
         old == RowOf(db, me.id)
         new == [old EXCEPT !.share.share_count = old.share.share_count + 1]
     IN IF HasRow(db, me.id)
        THEN /\ db' = UpdateRow(db, me.id, new)
             /\ Client(c, [me EXCEPT !.pc = "done", !.poetry = new,
                                     !.answer = [Answer(200) EXCEPT
                                                   !.shareUrl = new.share.shareUrl,
                                                   !.shareCount = new.share.share_count,
                                                   !.isPublic = new.share.isPublic],
                                     !.stored = new.share.share_count])
        ELSE /\ Client(c, Failed(c))
             /\ UNCHANGED db
  /\ UNCHANGED <<pc, req, finalImageUrl, result, inferInput, uploadPath, inflight,
                 trace, calls, dbReady, nodeEnv, response, sent, parseVars, upVars,
                 started, inserted>>

\* the update of poetry.incrementShareCount() settles, Poetry.js:278-290, and the
\* handler answers from the row read back, poetryController.js:381-388: the
\* update sets share_count (and updated_at) only
incrementShareCountSettled(c) ==
  /\ clients[c].pc = "incrementShareCount"
  /\ LET me == clients[c]
         old == RowOf(db, me.id)
         new == [old EXCEPT !.share.share_count = incrementedShareCount(me.poetry)]
     IN IF HasRow(db, me.id)
        THEN /\ db' = UpdateRow(db, me.id, new)
             /\ Client(c, [me EXCEPT !.pc = "done", !.poetry = new,
                                     !.answer = [Answer(200) EXCEPT
                                                   !.shareUrl = new.share.shareUrl,
                                                   !.shareCount = new.share.share_count,
                                                   !.isPublic = new.share.isPublic],
                                     !.stored = new.share.share_count])
        ELSE /\ Client(c, Failed(c))
             /\ UNCHANGED db
  /\ UNCHANGED <<pc, req, finalImageUrl, result, inferInput, uploadPath, inflight,
                 trace, calls, dbReady, nodeEnv, response, sent, parseVars, upVars,
                 started, inserted>>

\* the delete of Poetry.deleteById settles, Poetry.js:307-314, and the handler
\* answers, poetryController.js:458-461; a delete that matches no row is no error
deleteByIdSettled(c) ==
  /\ clients[c].pc = "deleteById"
  /\ db' = DeleteRow(db, clients[c].id)
  /\ Client(c, [clients[c] EXCEPT !.pc = "done", !.answer = Answer(200)])
  /\ UNCHANGED <<pc, req, finalImageUrl, result, inferInput, uploadPath, inflight,
                 trace, calls, dbReady, nodeEnv, response, sent, parseVars, upVars,
                 started, inserted>>

InitCrud ==
  /\ pc = "idle"
  /\ req = NoRequest
  /\ finalImageUrl = Undefined
  /\ result = NoResult
  /\ inferInput = [kind |-> "none", ref |-> Undefined]
  /\ uploadPath = "none"
  /\ inflight = {}
  /\ trace = <<>>
  /\ calls = [upload |-> 0, infer |-> 0, create |-> 0]
  /\ db = <<>>
  /\ dbReady \in BOOLEAN
  /\ nodeEnv = "production"
  /\ response = NoResponse
  /\ sent = 0
  /\ input = <<>>
  /\ parts = <<>>
  /\ parsed = NotParsed
  /\ UploadIdle
  /\ CrudIdle

NextCrud ==
  \/ poetryCreate
  \/ \E c \in Clients : getPoetryById(c)
  \/ \E c \in Clients : updateFeedback(c)
  \/ \E c \in Clients : sharePoetry(c)
  \/ \E c \in Clients : deletePoetry(c)
  \/ \E c \in Clients : findByIdSettled(c)
  \/ \E c \in Clients : saveSettled(c)
  \/ \E c \in Clients : incrementShareCountSettled(c)
  \/ \E c \in Clients : deleteByIdSettled(c)

SpecCrud == InitCrud /\ [][NextCrud]_vars

----------------------------------------------------------------------------
(* The parser on its own: parsePoetryResult applied to a string *)

\* the longest input is MaxPieces pieces long
MaxPieces == 3

Pieces ==
  {MarkDescription, MarkPoetry, MarkAnalysis, <<"a">>, <<"a", "b", "c">>, <<NL>>,
   <<" ">>, <<"*", "*">>, <<"s", "g", ":">>}

RECURSIVE Concat(_)
Concat(ss) == IF ss = <<>> THEN <<>> ELSE Head(ss) \o Concat(Tail(ss))

PieceInputs == {Concat(ps) : ps \in UNION {[1..n -> Pieces] : n \in 0..MaxPieces}}

\* texts for the five places of a well-formed answer; each is non-empty, has no
\* line break and contains no marker
Descriptions == {<<"a", "b">>, <<" ", "a", "b">>, <<"s", "g", ":", "*", "*", "a">>, <<"a", "*">>}
Titles == {<<"a", "b">>, <<"a">>, <<"f", "x", ":", "*", "*", "a">>, <<"a", "b", " ">>}
FirstLines == {<<"a", "b">>, <<"a", "b", "c">>, <<" ", "a", "b", "c">>}
SecondLines == {<<"a", "b">>, <<"b", " ">>, <<"*">>}
Analyses == {<<"a", "b">>, <<"a", "b", " ">>, <<"f", "x", ":", "*", "*", "a">>}

\* **<description marker>**D\n**<poem marker>**T\nL1\nL2\n**<analysis marker>**A
RoundTrip(D, T, L1, L2, A) ==
  MarkDescription \o D \o <<NL>> \o MarkPoetry \o T \o <<NL>> \o L1 \o <<NL>>
    \o L2 \o <<NL>> \o MarkAnalysis \o A

InitParse ==
  /\ pc = "idle"
  /\ req = NoRequest
  /\ finalImageUrl = Undefined
  /\ result = NoResult
  /\ inferInput = [kind |-> "none", ref |-> Undefined]
  /\ uploadPath = "none"
  /\ inflight = {}
  /\ trace = <<>>
  /\ calls = [upload |-> 0, infer |-> 0, create |-> 0]
  /\ db = <<>>
  /\ dbReady = TRUE
  /\ nodeEnv = "production"
  /\ response = NoResponse
  /\ sent = 0
  /\ parsed = NotParsed
  /\ UploadIdle
  /\ CrudIdle
  /\ \/ parts = <<>> /\ input \in PieceInputs
     \/ \E D \in Descriptions, T \in Titles, L1 \in FirstLines, L2 \in SecondLines,
           A \in Analyses :
          /\ parts = <<D, T, L1, L2, A>>
          /\ input = RoundTrip(D, T, L1, L2, A)

\* one call of doubaoService.parsePoetryResult(input)
applyParse ==
  /\ ~parsed.applied
  /\ parsed' = [applied |-> TRUE, threw |-> parsePoetryResult(input).threw,
                value |-> parsePoetryResult(input).value]
  /\ UNCHANGED <<genVars, input, parts, upVars, crudVars>>

NextParse == applyParse

SpecParse == InitParse /\ [][NextParse]_vars

----------------------------------------------------------------------------
(* Vocabulary of the properties *)

Done == pc = "done"
Happened(e) == \E i \in 1..Len(trace) : trace[i] = e

\* the request carries an uploaded file, an imageUrl or an imageBuffer
HasImageSource(r) == r.file.present \/ Truthy(r.imageUrl) \/ Truthy(r.imageBuffer)

\* the upload filter of the route lets the request through
FilterPasses(r) == r.file.present => (r.file.isImage /\ r.file.size <= MulterFileSize)

\* the body breaks a rule of the validation schema
BodyMalformed(r) ==
  \/ r.imageBuffer = ""
  \/ r.imageUrl \notin ValidUris \cup {Undefined}
  \/ r.style \notin Styles \cup {Undefined}

----------------------------------------------------------------------------
(* Claims about the generate request *)

C2_CannedPoemOfStyle ==
  (Done /\ Happened("infer:fail") /\ StyleOf(req) \in Styles) =>
    /\ response.status = 201
    /\ response.poetry.content = MockContent(StyleOf(req))
    /\ response.poetry.title = MockTitle(StyleOf(req))
    /\ response.poetry.style = StyleOf(req)

\* C2 witness: a request for the third style answered after a failed inference
C2_Witness ==
  /\ Done /\ Happened("infer:fail") /\ req.style = "langman"
  /\ response.poetry.title = MockTitle("langman")

C4_PlaceholderOrPersistedId ==
  /\ (Done /\ (Happened("create:fail") \/ (~dbReady /\ calls.create = 1))) =>
       /\ response.status = 201
       /\ response.poetry.content = result.poetry
       /\ response.poetry.id.prefix = "temp_"
       /\ response.poetry.id.n \in Timestamps
       /\ response.note # Undefined
       /\ db = <<>>
  /\ (Done /\ Happened("create:ok")) =>
       /\ response.status = 201
       /\ Len(db) = 1
       /\ response.poetry.id = db[1].id
       /\ response.poetry.id.prefix # "temp_"
       /\ response.note = Undefined

\* C4 witness: the degraded answer after a failed insert
C4_Witness ==
  /\ Done /\ Happened("create:fail") /\ dbReady
  /\ response.poetry.id.prefix = "temp_" /\ response.note # Undefined

\* C5: a request with no file, no imageUrl and no imageBuffer is answered 400 and
\* no upload, inference call or insert is made for it.
C5_NoImage400 ==
  (pc # "idle" /\ ~HasImageSource(req)) =>
    /\ calls = [upload |-> 0, infer |-> 0, create |-> 0]
    /\ inflight = {}
    /\ db = <<>>
    /\ Done => response.status = 400

\* C5 witness: such a request, answered
C5_Witness == Done /\ ~HasImageSource(req) /\ response.status = 400 /\ sent = 1

C7_UploadFailureFallsBack ==
  Happened("upload:fail") =>
    /\ pc \in {"preinfer", "inferring", "prepersist", "persisting", "done"}
    /\ pc \in {"inferring", "prepersist", "persisting", "done"} =>
         (calls.infer = 1 /\ inferInput.kind = "file.buffer")
    /\ Done => /\ response.status = 201
               /\ response.error = Undefined
               /\ response.details = Undefined

\* C7 witness: a chunked upload failed and inference got the bytes
C7_Witness ==
  /\ Done /\ Happened("upload:fail") /\ uploadPath = "multipartUploadImage"
  /\ inferInput.kind = "file.buffer" /\ Truthy(req.imageUrl)

\* C8: at most one external call is in flight; inference starts only after the
\* upload, if any, has settled; the insert starts only after inference has
\* settled or the fallback content is in place.
C8_StrictOrder ==
  /\ Cardinality(inflight) <= 1
  /\ \A i \in 1..Len(trace) :
       /\ trace[i] = "infer:start" =>
            \A j \in 1..Len(trace) :
              trace[j] = "upload:start" =>
                \E k \in (j + 1)..(i - 1) : trace[k] \in {"upload:ok", "upload:fail"}
       /\ trace[i] = "create:start" =>
            /\ \A j \in 1..Len(trace) :
                 trace[j] = "infer:start" =>
                   \E k \in (j + 1)..(i - 1) : trace[k] \in {"infer:ok", "infer:fail"}
            /\ \A j \in 1..Len(trace) :
                 trace[j] = "upload:start" =>
                   \E k \in (j + 1)..(i - 1) : trace[k] \in {"upload:ok", "upload:fail"}
  /\ pc \in {"persisting", "done"} /\ response.status \in {0, 201} => result # NoResult

\* C8 witness: all three calls were made, in order
C8_Witness ==
  /\ Done
  /\ trace = <<"upload:start", "upload:ok", "infer:start", "infer:ok",
               "create:start", "create:ok">>

\* C15: in every stored row and in every 201 answer of the generate request, on
\* the primary path and on the degraded ones, poetry.length is the number of
\* lines of poetry.content.
C15_LengthIsLineCount ==
  /\ \A i \in 1..Len(db) : db[i].poetry.length = Len(db[i].poetry.content)
  /\ response.status = 201 => response.poetry.length = Len(response.poetry.content)

\* C15 witness: a parsed poem of two lines stored and answered
C15_Witness ==
  /\ Done /\ Happened("infer:ok") /\ Happened("create:ok")
  /\ Len(db) = 1 /\ Len(db[1].poetry.content) = 2 /\ db[1].poetry.length = 2
  /\ response.status = 201 /\ response.poetry.length = 2

----------------------------------------------------------------------------
(* Claims about the parser *)

IsLineBreakFree(s) == \A i \in 1..Len(s) : s[i] # NL
ContainsMarker(s) == \E m \in Markers : Find(s, m) # 0
IsTrimmed(s) == s # <<>> /\ ~IsWs(s[1]) /\ ~IsWs(s[Len(s)])
MarkerOccurrences(s) ==
  Cardinality({<<i, m>> \in (1..Len(s)) \X Markers : StartsAt(s, i, m)})

C10_Precondition ==
  /\ parsed.applied /\ parts # <<>>
  /\ \A i \in 1..5 : parts[i] # <<>> /\ IsLineBreakFree(parts[i]) /\ ~ContainsMarker(parts[i])

C10_Recovered ==
  /\ parsed.value.imageDescription = parts[1]
  /\ parsed.value.title = parts[2]
  /\ parsed.value.poetry = <<parts[3], parts[4]>>
  /\ parsed.value.analysis = parts[5]

\* C10 as stated: for non-empty one-line texts without a marker, parsing the
\* built string gives back D, T, [L1, L2] and A.
C10_AsStated == C10_Precondition => C10_Recovered

\* C10 amended: the same, for texts that neither begin nor end with white space,
\* when the built string holds no marker but the three put in, and T has at least
\* two characters or L1 at most two.
C10_RoundTrip ==
  (/\ C10_Precondition
   /\ \A i \in 1..5 : IsTrimmed(parts[i])
   /\ MarkerOccurrences(input) = 3
   /\ (Len(parts[2]) >= 2 \/ Len(parts[3]) <= 2)) => C10_Recovered

\* C10 witness: a round trip with a '*' in D and in L2
C10_Witness ==
  /\ C10_Precondition /\ C10_Recovered
  /\ parts = << <<"a", "*">>, <<"a", "b">>, <<"a", "b", "c">>, <<"*">>, <<"a", "b">> >>

----------------------------------------------------------------------------
(* Claims about the object storage *)

FiveMiB == 5 * 1024 * 1024
RoutedSites == {"generate", "upload", "upload-url"}
PutCount == Cardinality({i \in 1..Len(trace) : trace[i] \in PutOutcomes})

\* image bytes reached one of the three sites: a file the route's upload filter
\* let through, or the bytes downloaded from the URL
PayloadArrived ==
  /\ upload.site \in RoutedSites
  /\ upPc \notin {"idle", "download"}
  /\ upResult.status # 400
  /\ upload.size <= ImagesFileSize
  /\ upload.site = "upload-url" => Happened("download:ok")

\* C12: at the generate request, at POST /api/images/upload and at the upload
\* from a URL, a payload of more than 5 MiB is handed to multipartUploadImage and
\* one of at most 5 MiB to uploadImage, and no other upload method call is made
\* for it.
C12_SizeBasedRouting ==
  /\ ossCalls.uploadImage + ossCalls.multipartUploadImage <= 1
  /\ PayloadArrived =>
       IF upload.size > FiveMiB
       THEN /\ upload.method = "multipartUploadImage"
            /\ ossCalls = [uploadImage |-> 0, multipartUploadImage |-> 1]
       ELSE /\ upload.method = "uploadImage"
            /\ ossCalls = [uploadImage |-> 1, multipartUploadImage |-> 0]

\* C12 witness: a download of exactly 5 MiB stored by the single-shot method
C12_Witness ==
  /\ upPc = "done" /\ upload.site = "upload-url" /\ upload.size = FiveMiB
  /\ upload.method = "uploadImage" /\ upResult.success
  /\ \E o \in storage : o.via = "put"

StorageErrors == (PutOutcomes \cup MultipartOutcomes) \ {"put:ok", "multipart:ok"}

\* C13 as stated: when re-encoding failed and the storage collaborator refused
\* nothing, the upload method returned success and the original bytes are stored,
\* on the single-shot and on the chunked path.
C13_AsStated ==
  (upPc = "done" /\ Happened("sharp:fail")
     /\ \A i \in 1..Len(trace) : trace[i] \notin StorageErrors) =>
    /\ upResult.success
    /\ \E o \in storage : o.bytes = "original"

\* C14 as stated: after a single-shot put failed with SignatureDoesNotMatch, a
\* further put reached the storage collaborator before the method settled.
C14_AsStated ==
  (upPc = "done" /\ Happened("put:SignatureDoesNotMatch")) => PutCount >= 2

----------------------------------------------------------------------------
(* Claims about the record requests *)

\* the step is the write of a share request on the row id
ShareWrites(id) ==
  \E c \in Clients :
    /\ clients[c].id = id
    /\ clients[c].pc = "incrementShareCount"
    /\ clients'[c].pc = "done"

\* C16 as stated: no step lowers the stored share_count of a row, and a step that
\* changes it is the write of a share request on that row.
C16_AsStated ==
  [][\A id \in RequestIds :
       (HasRow(db, id) /\ HasRow(db', id)) =>
         /\ RowOf(db', id).share.share_count >= RowOf(db, id).share.share_count
         /\ RowOf(db', id).share.share_count # RowOf(db, id).share.share_count
              => ShareWrites(id)]_vars

\* C17: a share request on a stored row that is handled while no other record
\* request is (so two of them come one after the other) is answered 200, leaves
\* the stored share_count exactly one above what it was when the request came,
\* and reports that count.
C17_SequentialShares ==
  \A c \in Clients :
    (clients[c].op = "share" /\ clients[c].pc = "done" /\ ~clients[c].overlapped
       /\ clients[c].seen >= 0) =>
      /\ clients[c].answer.status = 200
      /\ clients[c].stored = clients[c].seen + 1
      /\ clients[c].answer.shareCount = clients[c].seen + 1

\* C17 witness: the second of two share requests, alone, took the count from 1 to 2
C17_Witness ==
  /\ started = 2
  /\ clients[1].op = "share" /\ clients[1].pc = "done" /\ ~clients[1].overlapped
  /\ clients[1].seen = 1 /\ clients[1].answer.shareCount = 2
  /\ HasRow(db, clients[1].id) /\ RowOf(db, clients[1].id).share.share_count = 2

\* the body breaks the rating or the comment rule
FeedbackOutOfRange(body) ==
  \/ body.rating # Undefined /\ Number(body.rating) \notin 1..5
  \/ body.comment # Undefined /\ CommentLength(body.comment) > 500

\* C18: a feedback request whose rating is outside 1..5 or whose comment is longer
\* than 500 characters is answered 400 without a statement being sent to the
\* database, and every stored feedback.rating, when present, is in 1..5.
C18_FeedbackValidated ==
  /\ \A c \in Clients :
       (clients[c].op = "feedback" /\ FeedbackOutOfRange(clients[c].body)) =>
         /\ clients[c].pc = "done"
         /\ clients[c].answer.status = 400
         /\ clients[c].reads = 0 /\ clients[c].writes = 0
  /\ \A i \in 1..Len(db) :
       db[i].feedback.rating # Undefined => Number(db[i].feedback.rating) \in 1..5

\* C18 witness: rating 6 refused for a row whose stored rating is 5
C18_Witness ==
  /\ clients[1].op = "feedback" /\ clients[1].pc = "done"
  /\ clients[1].body.rating = "6" /\ clients[1].answer.status = 400
  /\ HasRow(db, clients[1].id) /\ RowOf(db, clients[1].id).feedback.rating = "5"

\* C19: a delete request that found its row is answered 403 and sends no write
\* when the row has an owner other than the userId of the request (or the request
\* has none); otherwise it is answered 200 and the row is gone.
C19_DeleteOwnership ==
  \A c \in Clients :
    (clients[c].op = "delete" /\ clients[c].pc = "done" /\ clients[c].poetry # NoPoetry) =>
      IF Truthy(clients[c].poetry.user_id)
           /\ clients[c].poetry.user_id # clients[c].body.userId
      THEN /\ clients[c].answer.status = 403
           /\ clients[c].writes = 0
           /\ ~clients[c].overlapped =>
                (HasRow(db, clients[c].id) /\ RowOf(db, clients[c].id) = clients[c].poetry)
      ELSE /\ clients[c].answer.status = 200
           /\ ~HasRow(db, clients[c].id)

\* C19 witness: a stranger's delete of an owned row answered 403, the row kept
C19_Witness ==
  /\ clients[1].op = "delete" /\ clients[1].pc = "done"
  /\ clients[1].poetry.user_id = "u1" /\ clients[1].body.userId = "u2"
  /\ clients[1].answer.status = 403
  /\ HasRow(db, clients[1].id)

\* C20 as stated: a record request whose findById found no row is answered 404.
C20_AsStated ==
  \A c \in Clients :
    (clients[c].pc = "done" /\ clients[c].reads = 1 /\ clients[c].poetry = NoPoetry) =>
      clients[c].answer.status = 404

\* C21 as stated: a share request answered 200 carries the share URL /poetry/<id>
\* of its row and the count its write left.
C21_AsStated ==
  \A c \in Clients :
    (clients[c].op = "share" /\ clients[c].pc = "done" /\ clients[c].answer.status = 200) =>
      /\ clients[c].answer.shareUrl = "/poetry/" \o ToString(clients[c].id.n)
      /\ clients[c].answer.shareCount = clients[c].stored

\* a share request that has finished, having read its row
SharedAfterRead(c) ==
  /\ clients[c].op = "share"
  /\ clients[c].pc = "done"
  /\ clients[c].readCount >= 0

\* C24: two share requests on one record that both read the count n, that is,
\* both read before either wrote, are both answered 200 while the record is
\* there, and the write of each leaves n + 1: the second write does not add to
\* the first, it repeats it.
C24_LostUpdate ==
  \A c, d \in Clients :
    (/\ c # d
     /\ SharedAfterRead(c) /\ SharedAfterRead(d)
     /\ clients[c].id = clients[d].id
     /\ clients[c].readCount = clients[d].readCount
     /\ HasRow(db, clients[c].id)) =>
      /\ clients[c].answer.status = 200 /\ clients[d].answer.status = 200
      /\ clients[c].stored = clients[c].readCount + 1
      /\ clients[d].stored = clients[c].readCount + 1

\* two shares of one record read 0, both were answered 200 and the stored count
\* is 1, not 2
C24_Witness ==
  \E c, d \in Clients :
    /\ c # d
    /\ SharedAfterRead(c) /\ SharedAfterRead(d)
    /\ clients[c].id = clients[d].id
    /\ clients[c].readCount = 0 /\ clients[d].readCount = 0
    /\ clients[c].answer.status = 200 /\ clients[d].answer.status = 200
    /\ HasRow(db, clients[c].id)
    /\ RowOf(db, clients[c].id).share.share_count = 1

\* the step is the write of the feedback request c, on a row that is there
FeedbackWrites(c) ==
  /\ clients[c].op = "feedback"
  /\ clients[c].pc = "save"
  /\ clients'[c].pc = "done"
  /\ HasRow(db, clients[c].id)

\* the feedback column new is old with the supplied fields of body put in
MergedFeedback(old, new, body) ==
  /\ new.rating = (IF body.rating # Undefined THEN body.rating ELSE old.rating)
  /\ new.comment = (IF body.comment # Undefined THEN body.comment ELSE old.comment)
  /\ new.isLiked = (IF body.isLiked # Undefined THEN body.isLiked ELSE old.isLiked)

\* C25 as stated: the write of a feedback request puts the supplied feedback
\* fields into the stored row and leaves the other feedback fields as they are
\* stored; when no other record request is handled meanwhile it leaves every
\* other column of the row as it is stored.
C25_AsStated ==
  [][\A c \in Clients :
       FeedbackWrites(c) =>
         LET old == RowOf(db, clients[c].id)
             new == RowOf(db', clients[c].id)
         IN /\ MergedFeedback(old.feedback, new.feedback, clients[c].body)
            /\ ~clients[c].overlapped => new = [old EXCEPT !.feedback = new.feedback]]_vars

\* C25 amended: the write of a feedback request puts the supplied feedback
\* fields into the stored row; when no other record request is handled meanwhile
\* it leaves the other feedback fields and every other column as they are stored.
C25_FeedbackFrame ==
  [][\A c \in Clients :
       FeedbackWrites(c) =>
         LET old == RowOf(db, clients[c].id)
             new == RowOf(db', clients[c].id)
             body == clients[c].body
         IN /\ body.rating # Undefined => new.feedback.rating = body.rating
            /\ body.comment # Undefined => new.feedback.comment = body.comment
            /\ body.isLiked # Undefined => new.feedback.isLiked = body.isLiked
            /\ ~clients[c].overlapped =>
                 /\ MergedFeedback(old.feedback, new.feedback, body)
                 /\ new = [old EXCEPT !.feedback = new.feedback]]_vars

\* a feedback request handled alone that supplied only a rating was answered 200,
\* and the stored row has its rating beside the isLiked an earlier request set
C25_Witness ==
  \E c \in Clients :
    /\ clients[c].op = "feedback" /\ clients[c].pc = "done"
    /\ clients[c].answer.status = 200
    /\ ~clients[c].overlapped
    /\ clients[c].body = [NoBody EXCEPT !.rating = "5"]
    /\ HasRow(db, clients[c].id)
    /\ RowOf(db, clients[c].id).feedback.rating = "5"
    /\ RowOf(db, clients[c].id).feedback.isLiked = "true"

\* the limit of GET /api/poetry/popular when the query gives none,
\* poetryController.js:401
PopularLimit == 10

\* C28: the write of a share request changes share.share_count of its row and
\* nothing else of it; no stored row ever has the isPublic or the shareUrl the
\* handler sets in memory, every stored row has share.is_public false, and the
\* popular query returns no row.
C28_ShareWriteFrame ==
  /\ [](/\ \A i \in 1..Len(db) :
             /\ db[i].share.is_public = FALSE
             /\ db[i].share.isPublic = Undefined
             /\ db[i].share.shareUrl = Undefined
        /\ findPopular(db, PopularLimit) = <<>>)
  /\ [][\A id \in RequestIds :
         (ShareWrites(id) /\ HasRow(db, id)) =>
           /\ HasRow(db', id)
           /\ RowOf(db', id) =
                [RowOf(db, id) EXCEPT
                   !.share.share_count = RowOf(db', id).share.share_count]]_vars

\* a share request that asked for a public share was answered 200, and its row is
\* stored with the new count and is_public false
C28_Witness ==
  \E c \in Clients :
    /\ clients[c].op = "share" /\ clients[c].pc = "done"
    /\ clients[c].answer.status = 200
    /\ clients[c].body.isPublic = Undefined
    /\ HasRow(db, clients[c].id)
    /\ RowOf(db, clients[c].id).share.share_count = 1
    /\ RowOf(db, clients[c].id).share.is_public = FALSE

\* the step is the write of a feedback or share request c that read its row
StaleWrite(c) ==
  /\ clients[c].pc \in {"save", "incrementShareCount"}
  /\ clients'[c].pc = "done"
  /\ clients[c].readCount >= 0

\* C29: the write of a feedback or share request that read its row, made when
\* the row is no longer stored, changes nothing stored and is answered 500; a
\* row that is not stored comes to be stored only by the insert of a new record
\* under a new id.
C29_NoResurrection ==
  [][/\ \A c \in Clients :
          (StaleWrite(c) /\ ~HasRow(db, clients[c].id)) =>
            /\ db' = db
            /\ clients'[c].answer.status = 500
      /\ \A id \in RequestIds :
          (~HasRow(db, id) /\ HasRow(db', id)) =>
            /\ inserted' = inserted + 1
            /\ id = RecordId(inserted')]_vars

\* a delete was answered 200 and a feedback request that had read the row before
\* was answered 500; the row is not stored
C29_Witness ==
  \E c, d \in Clients :
    /\ clients[c].op = "delete" /\ clients[c].pc = "done"
    /\ clients[c].answer.status = 200
    /\ clients[d].op = "feedback" /\ clients[d].pc = "done"
    /\ clients[d].id = clients[c].id
    /\ clients[d].readCount >= 0
    /\ clients[d].writes = 1
    /\ clients[d].answer.status = 500
    /\ ~HasRow(db, clients[d].id)

\* C30 as stated: when a chunked upload has returned or thrown, the temporary
\* file it wrote is no longer there.
C30_AsStated ==
  (upPc = "done" /\ upload.method = "multipartUploadImage") => tempFiles = {}

----------------------------------------------------------------------------
(* Claims about the title promotion of the parser *)

\* the poem section of raw, Poetry.js:561-562
PoemSection(raw) ==
  LET poetryMatch == Capture(raw, MarkPoetry, {MarkAnalysis})
  IN IF poetryMatch.found THEN Trim(poetryMatch.text) ELSE raw

\* the title the first line of the section gives, Poetry.js:567-568
SectionTitle(raw) ==
  LET titleMatch == TitleMatch(PoemSection(raw))
  IN IF titleMatch.found THEN Trim(titleMatch.text) ELSE Null

\* the section without the line that gave a title, Poetry.js:573-575
PoemBody(raw) ==
  IF SectionTitle(raw) \notin {Null, <<>>}
  THEN Trim(TitleMatch(PoemSection(raw)).rest)
  ELSE PoemSection(raw)

\* no usable title and a first body line of more than 2 characters,
\* Poetry.js:578-580
PromotionCase(raw) ==
  /\ SectionTitle(raw) \in {Null, <<>>} \/ Len(SectionTitle(raw)) < 2
  /\ Len(Split(PoemBody(raw))[1]) > 2

\* the description and the analysis the markers of raw give, Poetry.js:553-558,
\* :593-594
ExtractedDescription(raw) ==
  LET m == Capture(raw, MarkDescription, {MarkPoetry, MarkAnalysis})
  IN IF m.found THEN Trim(m.text) ELSE DefaultDescription

ExtractedAnalysis(raw) ==
  LET m == Capture(raw, MarkAnalysis, {})
  IN IF m.found THEN Trim(m.text) ELSE DefaultAnalysis

\* C23 as stated: for an input with a poem marker whose section gives no usable
\* title and whose first body line is longer than 2 characters, the parser
\* returns that line as the title, the other non-blank lines of the section as
\* the poem, and the description and analysis extracted from the input.
C23_AsStated ==
  (parsed.applied /\ Find(input, MarkPoetry) > 0 /\ PromotionCase(input)) =>
    /\ parsed.value.title = Trim(Split(PoemBody(input))[1])
    /\ parsed.value.poetry =
         SelectSeq(Tail(Split(PoemBody(input))), LAMBDA line : Trim(line) # <<>>)
    /\ parsed.value.imageDescription = ExtractedDescription(input)
    /\ parsed.value.analysis = ExtractedAnalysis(input)

----------------------------------------------------------------------------
(* Claims about the generate request: inference input, single answer *)

\* the controller has gone past the inference call
PastInference == pc \in {"inferring", "prepersist", "persisting"} \/ response.status = 201

\* C26: an upload is started only for a request that carries a file, and once
\* for such a request; a request past the inference step made exactly one
\* inference call, with the stored URL after a successful upload, the uploaded
\* bytes after a failed one (whatever imageUrl says), the request's imageUrl
\* when there is no file, and the imageBuffer exactly when there is neither file
\* nor imageUrl.
C26_InferenceInputSelection ==
  /\ calls.upload > 0 => req.file.present
  /\ calls.infer <= 1
  /\ PastInference =>
       /\ calls.infer = 1
       /\ calls.upload = (IF req.file.present THEN 1 ELSE 0)
       /\ Happened("upload:ok") => inferInput = [kind |-> "url", ref |-> OssUrl]
       /\ Happened("upload:fail") => inferInput.kind = "file.buffer"
       /\ (~req.file.present /\ Truthy(req.imageUrl)) =>
            inferInput = [kind |-> "url", ref |-> req.imageUrl]
       /\ inferInput.kind = "imageBuffer" <=>
            (~req.file.present /\ ~Truthy(req.imageUrl))
       /\ inferInput.kind = "imageBuffer" => inferInput.ref = req.imageBuffer

\* C26 witness: a request with only an imageBuffer was answered after one
\* inference call on that buffer and no upload
C26_Witness ==
  /\ Done /\ response.status = 201
  /\ ~req.file.present /\ ~Truthy(req.imageUrl)
  /\ inferInput.kind = "imageBuffer"
  /\ calls.infer = 1 /\ calls.upload = 0

\* C27: a generate request sends at most one answer and starts at most one
\* insert, whatever the upload, the inference call and the insert do; once it
\* has reached the controller it gets to its end having sent exactly one answer.
C27_ExactlyOneResponse ==
  /\ [](/\ sent <= 1
        /\ calls.create <= 1
        /\ Cardinality({i \in 1..Len(trace) : trace[i] = "create:start"}) <= 1
        /\ Done => sent = 1
        /\ ~Done => sent = 0)
  /\ (pc = "controller") ~> (Done /\ sent = 1)

\* C27 witness: upload, inference and insert all failed, and one answer was sent
\* after one insert
C27_Witness ==
  /\ Done /\ sent = 1 /\ calls.create = 1
  /\ trace = <<"upload:start", "upload:fail", "infer:start", "infer:fail",
               "create:start", "create:fail">>

----------------------------------------------------------------------------
(* Claims about the error detail *)

\* the messages of the errors multer passes to the error handler
\* (routes/poetry.js:11-20, part_000:17-31)
MulterMessages == {"fileFilter", "LIMIT_FILE_SIZE"}

\* C22 as stated: outside development mode no 500 answer of the generate
\* endpoint, of the image upload endpoints or of the error handler carries the
\* message of the error behind it, in any of its fields.
C22_AsStated ==
  nodeEnv # "development" =>
    /\ response.status = 500 =>
         /\ response.error \notin MulterMessages
         /\ response.details = Undefined
         /\ response.stack = Undefined
    /\ upResult.status = 500 =>
         /\ upResult.error \notin MulterMessages
         /\ upResult.details = Undefined

====
